---- MODULE Spec2Model ----
(***************************************************************************)
(* State-machine model of the remote-viewing Solana program               *)
(* (solana-program/src/lib.rs): target pools, sessions and the five         *)
(* instructions that create, append to and finalize them.                   *)
(*                                                                          *)
(* An account is a record [data_len, data]: data_len is the size of the     *)
(* account's byte buffer (0 = the account holds no data) and data is the    *)
(* record whose Borsh encoding was last written at the start of the buffer. *)
(* TargetPool::try_from_slice / Session::try_from_slice succeed only when   *)
(* the encoding fills the buffer exactly; serialize into the buffer fails   *)
(* when the encoding is longer than the buffer.  A failed instruction       *)
(* leaves every account as it was (the runtime discards its writes).        *)
(* FinalizeSession reads and writes whatever account it is handed as the    *)
(* session account; when that is a pool account, the pool's bytes are read  *)
(* as a Session and the written Session's bytes are read back as a pool.    *)
(***************************************************************************)
EXTENDS Integers, Sequences, FiniteSets, TLC

VARIABLES pools, sessions, clock, last, sel

vars == <<pools, sessions, clock, last, sel>>

(***************************************************************************)
(* Program constants                                                        *)
(***************************************************************************)
MAX_TARGETS == 10000
MIN_FINALIZE_SLOTS == 2
MAX_FINALIZE_SLOTS == 150
U16_MAX == 65535
HASH_BYTES == 32
ENTROPY_PREFIX_BYTES == 8

(***************************************************************************)
(* Bounds of the model                                                      *)
(***************************************************************************)
\* longest targets vector a pool grows to under Spec
MaxPoolLen == 5
\* how many slots past submission-slot-0's window end the clock is sampled
MaxLateSlot == 1

(***************************************************************************)
(* Input alphabets                                                          *)
(***************************************************************************)
PoolIds == {"p1", "p2"}
PoolIdArgs == PoolIds \cup {""}
SessionIds == {"s1", "s2"}
SessionIdArgs == SessionIds \cup {""}
\* <<account key, is_signer>> of the authority account handed to an instruction
Signed(who) == <<who, TRUE>>
Unsigned(who) == <<who, FALSE>>
FiveTargets == <<"h1", "h2", "h3", "h4", "h5">>

\* slots at which the host clock is observed
SlotSamples ==
    (0 .. MIN_FINALIZE_SLOTS)
        \cup {MAX_FINALIZE_SLOTS + k : k \in 0 .. MaxLateSlot}

(***************************************************************************)
(* Borsh record sizes                                                       *)
(***************************************************************************)
PoolSize(p) ==
    4 + Len(p.pool_id) + 32 + 2 + 4 + HASH_BYTES * Len(p.targets) + 8 + 1

SessionSize(s) ==
    4 + Len(s.session_id) + 4 + Len(s.pool_id) + 32 + 8 + 32 + 2 + 32 + 32
      + 8 + 1 + 8 + 4 + 2 * Len(s.completed_target_indices)

ZeroHash == [i \in 1 .. HASH_BYTES |-> 0]

NoPool ==
    [pool_id |-> "", creator |-> "", target_count |-> 0, targets |-> << >>,
     created_at |-> 0, finalized |-> FALSE]

NoSession ==
    [session_id |-> "", pool_id |-> "", session_media_hash |-> "",
     submission_slot |-> 0, submission_blockhash |-> ZeroHash,
     assigned_target_index |-> 0, target_selector_program |-> "",
     submitter |-> "", submitted_at |-> 0, finalized |-> FALSE,
     finalized_at |-> 0, completed_target_indices |-> << >>]

EmptyPoolAccount == [data_len |-> 0, data |-> NoPool]
EmptySessionAccount == [data_len |-> 0, data |-> NoSession]

\* TargetPool::try_from_slice(&account.data): every byte must be consumed
PoolParses(acct) == acct.data_len > 0 /\ PoolSize(acct.data) = acct.data_len

\* Session::try_from_slice(&account.data)
SessionParses(acct) ==
    acct.data_len > 0 /\ SessionSize(acct.data) = acct.data_len

(***************************************************************************)
(* Address derivation                                                       *)
(***************************************************************************)
\* Pubkey::find_program_address(&[tag, hash(id)], program_id)
find_program_address(tag, id) == <<tag, id>>

PoolKeys == {find_program_address("target_pool", p) : p \in PoolIdArgs}
SessionKeys == {find_program_address("session", s) : s \in SessionIdArgs}

\* accounts not owned by the program whose data parses as a TargetPool
ForeignPools ==
    [fake |->
        [data_len |-> PoolSize([NoPool EXCEPT !.pool_id = "p1"]),
         data |-> [NoPool EXCEPT !.pool_id = "p1", !.creator = "mallory",
                                 !.target_count = 7]]]

ForeignKeys == {<<"foreign", n>> : n \in DOMAIN ForeignPools}

\* the pool-typed account found at a key
PoolAccountAt(key) ==
    IF key[1] = "foreign" THEN ForeignPools[key[2]] ELSE pools[key[2]]

(***************************************************************************)
(* Base-58 decoding of the submission_blockhash text (bs58::decode)         *)
(***************************************************************************)
Bs58Alphabet ==
    <<"1","2","3","4","5","6","7","8","9",
      "A","B","C","D","E","F","G","H","J","K","L","M","N","P","Q","R","S","T",
      "U","V","W","X","Y","Z",
      "a","b","c","d","e","f","g","h","i","j","k","m","n","o","p","q","r","s",
      "t","u","v","w","x","y","z">>

\* value of a character, 255 for a character outside the alphabet
Bs58Digit(c) ==
    IF \E i \in 1 .. 58 : Bs58Alphabet[i] = c
    THEN (CHOOSE i \in 1 .. 58 : Bs58Alphabet[i] = c) - 1
    ELSE 255

\* The decoder's loops run over index ranges; a range is folded in halves, the
\* left half's result bound as a value, so that the evaluation stays shallow.  State of the inner loop: [out, val],
\* out the little-endian output bytes so far and val the running carry.

\* for byte in &mut output[..index] { val += byte * 58; byte = val & 0xFF; val >>= 8 }
Bs58MulByte(i, st) ==
    LET v == st.val + st.out[i] * 58
    IN [out |-> [st.out EXCEPT ![i] = v % 256], val |-> v \div 256]

RECURSIVE Bs58MulBytes(_, _, _)
Bs58MulBytes(lo, hi, st) ==
    IF lo > hi THEN st
    ELSE IF lo = hi THEN Bs58MulByte(lo, st)
    ELSE LET mid == (lo + hi) \div 2
         IN CHOOSE done \in
                {Bs58MulBytes(mid + 1, hi, left) :
                    left \in {Bs58MulBytes(lo, mid, st)}} : TRUE

\* while val > 0 { output[index] = val & 0xFF; index += 1; val >>= 8 }
RECURSIVE Bs58PushCarry(_)
Bs58PushCarry(st) ==
    IF st.val > 0
    THEN Bs58PushCarry([out |-> Append(st.out, st.val % 256),
                        val |-> st.val \div 256])
    ELSE st.out

\* one character of the text: out := out * 58 + digit
Bs58Char(c, r) ==
    LET d == Bs58Digit(c)
    IN IF ~r.ok THEN r
       ELSE IF d = 255 THEN [ok |-> FALSE, bytes |-> << >>]
       ELSE [ok |-> TRUE,
             bytes |-> Bs58PushCarry(
                 Bs58MulBytes(1, Len(r.bytes), [out |-> r.bytes, val |-> d]))]

RECURSIVE Bs58Chars(_, _, _, _)
Bs58Chars(text, lo, hi, r) ==
    IF lo > hi THEN r
    ELSE IF lo = hi THEN Bs58Char(text[lo], r)
    ELSE LET mid == (lo + hi) \div 2
         IN CHOOSE done \in
                {Bs58Chars(text, mid + 1, hi, left) :
                    left \in {Bs58Chars(text, lo, mid, r)}} : TRUE

\* input.iter().take_while(|c| c == '1').count()
Bs58LeadingOnes(text) ==
    IF \E k \in 1 .. Len(text) : text[k] # Bs58Alphabet[1]
    THEN (CHOOSE k \in 1 .. Len(text) :
            /\ text[k] # Bs58Alphabet[1]
            /\ \A j \in 1 .. k - 1 : text[j] = Bs58Alphabet[1]) - 1
    ELSE Len(text)

Reverse(s) == [i \in 1 .. Len(s) |-> s[Len(s) + 1 - i]]

\* bs58::decode(text).into_vec(): [ok, bytes], bytes big-endian
bs58_decode(text) ==
    LET r == Bs58Chars(text, 1, Len(text), [ok |-> TRUE, bytes |-> << >>])
        z == Bs58LeadingOnes(text)
    IN IF r.ok
       THEN [ok |-> TRUE,
             bytes |-> Reverse(r.bytes \o [i \in 1 .. z |-> 0])]
       ELSE r

\* blockhash texts handed to FinalizeSession
TextSeven ==
    <<"1","1","1","1","1","1","1","4","5","v","d","D","V","x","D","7","P","D",
      "i","b","z","Q","L","B","t","D","n","3","x","k","h","V","X","y","Z","n",
      "T","o","i","k","y">>
TextOnes ==
    <<"4","v","J","9","J","U","1","b","J","J","E","9","6","F","W","S","J","K",
      "v","H","s","m","m","F","A","D","C","g","4","g","p","Z","Q","f","f","4",
      "P","3","b","k","L","K","i">>
TextZero == [i \in 1 .. 32 |-> "1"]
TextShort ==
    <<"1","1","1","1","1","1","1","h","Y","B","U","J","S","C","M","U","h","3",
      "B","C","C","B","E","o","3","S","c","Z","a","1","Z","k","G","X","z","R",
      "e","m","o">>
TextBadChar == <<"1","1","0","O","I","l">>
TextEmpty == << >>

BlockhashTexts ==
    {TextSeven, TextOnes, TextZero, TextShort, TextBadChar, TextEmpty}

\* decoding of every text of the alphabet, computed once
DecodedText == [t \in BlockhashTexts |-> bs58_decode(t)]

(***************************************************************************)
(* Target selection                                                         *)
(***************************************************************************)
\* u64::from_be_bytes(bytes) % n, reduced byte by byte: the 64-bit value
\* itself is wider than the checker's integers
RECURSIVE BeBytesMod(_, _, _, _)
BeBytesMod(bytes, k, n, acc) ==
    IF k > Len(bytes) THEN acc
    ELSE BeBytesMod(bytes, k + 1, n, (acc * 256 + bytes[k]) % n)

\* variant: the eight bytes read least significant first
calculate_target_index_le(blockhash, target_count) ==
    BeBytesMod(Reverse(SubSeq(blockhash, 1, ENTROPY_PREFIX_BYTES)), 1,
               target_count, 0)
        % (U16_MAX + 1)

calculate_target_index(blockhash, target_count) ==
    BeBytesMod(SubSeq(blockhash, 1, ENTROPY_PREFIX_BYTES), 1, target_count, 0)
        % (U16_MAX + 1)

\* variant: the completed indices are not removed
AvailableIndices_keep_all(target_count, completed) ==
    [i \in 1 .. target_count |-> i - 1]

\* (0..target_count).collect() followed by retain(!completed.contains)
AvailableIndices(target_count, completed) ==
    SelectSeq([i \in 1 .. target_count |-> i - 1],
              LAMBDA x : \A j \in 1 .. Len(completed) : completed[j] # x)

(***************************************************************************)
(* Instruction handlers.  Each <name>_result operator is the handler's      *)
(* chain of checks in source order and yields the error it returns, or      *)
(* "Ok"; the process_* action applies the handler's writes when the result  *)
(* is "Ok" and leaves every account unchanged otherwise.                    *)
(* authority = <<key, is_signer>>; cpi_ok = the system-program call made    *)
(* by the handler (create_account / transfer / realloc) succeeds.           *)
(***************************************************************************)
u16(n) == n % (U16_MAX + 1)

new_pool(creator, pool_id, target_hashes) ==
    [pool_id |-> pool_id,
     creator |-> creator,
     target_count |-> u16(Len(target_hashes)),
     targets |-> target_hashes,
     created_at |-> clock.unix_timestamp,
     finalized |-> FALSE]

\* variant: an account that already holds a pool is written again
create_target_pool_result_overwrite(pool_account, authority, pool_id, target_hashes, cpi_ok) ==
    IF ~authority[2] THEN "MissingRequiredSignature"
    ELSE IF find_program_address("target_pool", pool_id) # pool_account
    THEN "InvalidArgument"
    ELSE IF pool_id = "" THEN "InvalidPoolId"
    ELSE IF Len(target_hashes) > MAX_TARGETS THEN "InvalidTargetCount"
    ELSE IF ~cpi_ok THEN "SystemProgramError"
    ELSE "Ok"

create_target_pool_result(pool_account, authority, pool_id, target_hashes, cpi_ok) ==
    IF ~authority[2] THEN "MissingRequiredSignature"
    ELSE IF find_program_address("target_pool", pool_id) # pool_account
    THEN "InvalidArgument"
    ELSE IF PoolAccountAt(pool_account).data_len > 0 THEN "PoolAlreadyExists"
    ELSE IF pool_id = "" THEN "InvalidPoolId"
    ELSE IF Len(target_hashes) > MAX_TARGETS THEN "InvalidTargetCount"
    ELSE IF ~cpi_ok THEN "SystemProgramError"
    ELSE "Ok"

process_create_target_pool(pool_account, authority, pool_id, target_hashes, cpi_ok) ==
    LET res == create_target_pool_result(pool_account, authority, pool_id,
                                         target_hashes, cpi_ok)
        pool == new_pool(authority[1], pool_id, target_hashes)
    IN /\ last' = [op |-> "CreateTargetPool", result |-> res]
       /\ pools' = IF res = "Ok"
                   THEN [pools EXCEPT ![pool_id] =
                            [data_len |-> PoolSize(pool), data |-> pool]]
                   ELSE pools
       /\ UNCHANGED <<sessions, clock, sel>>

\* variant: the submission slot is left at zero
new_session_slot_zero(submitter, session_id, pool_id, session_media_hash, target_selector_program, completed_target_indices) ==
    [session_id |-> session_id,
     pool_id |-> pool_id,
     session_media_hash |-> session_media_hash,
     submission_slot |-> 0,
     submission_blockhash |-> ZeroHash,
     assigned_target_index |-> U16_MAX,
     target_selector_program |-> target_selector_program,
     submitter |-> submitter,
     submitted_at |-> clock.unix_timestamp,
     finalized |-> FALSE,
     finalized_at |-> 0,
     completed_target_indices |-> completed_target_indices]

new_session(submitter, session_id, pool_id, session_media_hash, target_selector_program, completed_target_indices) ==
    [session_id |-> session_id,
     pool_id |-> pool_id,
     session_media_hash |-> session_media_hash,
     submission_slot |-> clock.slot,
     submission_blockhash |-> ZeroHash,
     assigned_target_index |-> U16_MAX,
     target_selector_program |-> target_selector_program,
     submitter |-> submitter,
     submitted_at |-> clock.unix_timestamp,
     finalized |-> FALSE,
     finalized_at |-> 0,
     completed_target_indices |-> completed_target_indices]

submit_session_result(session_account, pool_account, authority, session_id, pool_id, cpi_ok) ==
    IF ~authority[2] THEN "MissingRequiredSignature"
    ELSE IF find_program_address("session", session_id) # session_account
    THEN "InvalidArgument"
    ELSE IF sessions[session_account[2]].data_len > 0
    THEN "SessionAlreadyExists"
    ELSE IF session_id = "" THEN "InvalidSessionId"
    ELSE IF pool_id = "" THEN "InvalidPoolId"
    ELSE IF ~PoolParses(PoolAccountAt(pool_account)) THEN "BorshIoError"
    ELSE IF PoolAccountAt(pool_account).data.pool_id # pool_id
    THEN "PoolNotFound"
    ELSE IF ~cpi_ok THEN "SystemProgramError"
    ELSE "Ok"

process_submit_session(session_account, pool_account, authority, session_id, pool_id, session_media_hash, target_selector_program, completed_target_indices, cpi_ok) ==
    LET res == submit_session_result(session_account, pool_account, authority,
                                     session_id, pool_id, cpi_ok)
        session == new_session(authority[1], session_id, pool_id,
                               session_media_hash, target_selector_program,
                               completed_target_indices)
    IN /\ last' = [op |-> "SubmitSession", result |-> res]
       /\ sessions' = IF res = "Ok"
                      THEN [sessions EXCEPT ![session_id] =
                               [data_len |-> SessionSize(session),
                                data |-> session]]
                      ELSE sessions
       /\ UNCHANGED <<pools, clock, sel>>

\* variant: the window opens one slot after submission
too_early_one_slot(slot, submission_slot) == slot < submission_slot + 1

\* clock.slot < session.submission_slot + 2
too_early(slot, submission_slot) == slot < submission_slot + MIN_FINALIZE_SLOTS

\* variant: the window never closes
slot_hash_expired_never(slot, submission_slot) == FALSE

\* clock.slot > session.submission_slot + 150
slot_hash_expired(slot, submission_slot) ==
    slot > submission_slot + MAX_FINALIZE_SLOTS

\* the text decodes to exactly 32 bytes
blockhash_ok(text) ==
    /\ Len(text) > 0
    /\ DecodedText[text].ok
    /\ Len(DecodedText[text].bytes) = HASH_BYTES

\* variant: the rank among the available indices is stored, not the index
select_target_rank(blockhash, target_count, completed_target_indices) ==
    LET available == AvailableIndices(target_count, completed_target_indices)
    IN calculate_target_index(blockhash, u16(Len(available)))

\* available_indices[calculate_target_index(blockhash, len)]
select_target(blockhash, target_count, completed_target_indices) ==
    LET available == AvailableIndices(target_count, completed_target_indices)
    IN available[calculate_target_index(blockhash, u16(Len(available))) + 1]

finalized_session(session, blockhash, target_count, completed_target_indices) ==
    [session EXCEPT
        !.submission_blockhash = blockhash,
        !.assigned_target_index =
            select_target(blockhash, target_count, completed_target_indices),
        !.finalized = TRUE,
        !.finalized_at = clock.unix_timestamp,
        !.completed_target_indices = completed_target_indices]

(***************************************************************************)
(* Borsh encoding of the two records.  The byte operators below take keys   *)
(* and hashes as their 32 bytes and identifiers as the texts of Utf8; they  *)
(* are evaluated only for accounts whose records are held in that form.     *)
(***************************************************************************)
\* the texts the account buffers of the model hold, as UTF-8
Utf8 ==
    ("" :> << >>) @@ ("p1" :> <<112, 49>>) @@ ("p2" :> <<112, 50>>)
        @@ ("s1" :> <<115, 49>>) @@ ("s2" :> <<115, 50>>)

\* little-endian encoding of an unsigned integer in width bytes
RECURSIVE le_bytes(_, _)
le_bytes(n, width) ==
    IF width = 0 THEN << >>
    ELSE <<n % 256>> \o le_bytes(n \div 256, width - 1)

RECURSIVE le_value(_)
le_value(bytes) ==
    IF bytes = << >> THEN 0 ELSE bytes[1] + 256 * le_value(Tail(bytes))

\* no buffer of the model is as long as this
BeyondBuffer == U16_MAX + 1

\* the u32 length prefix at offset o of a buffer; a prefix that does not fit
\* the buffer, or that counts more than any buffer holds, reads as BeyondBuffer
read_len(bytes, o) ==
    IF Len(bytes) < o + 4 \/ bytes[o + 3] # 0 \/ bytes[o + 4] # 0
    THEN BeyondBuffer
    ELSE le_value(SubSeq(bytes, o + 1, o + 2))

\* String: u32 length, then the text
str_bytes(text) == le_bytes(Len(Utf8[text]), 4) \o Utf8[text]

\* String::from_utf8 on the bytes of a buffer
from_utf8(bytes) ==
    IF \E t \in DOMAIN Utf8 : Utf8[t] = bytes
    THEN [ok |-> TRUE, text |-> CHOOSE t \in DOMAIN Utf8 : Utf8[t] = bytes]
    ELSE [ok |-> FALSE, text |-> ""]

\* Vec<u16>: u32 length, then two bytes per element
u16_vec_bytes(list) ==
    le_bytes(Len(list), 4)
        \o [i \in 1 .. 2 * Len(list) |->
                IF i % 2 = 1 THEN list[(i + 1) \div 2] % 256
                             ELSE list[i \div 2] \div 256]

\* Vec<[u8; 32]>: u32 length, then the arrays
hash_vec_bytes(hashes) ==
    le_bytes(Len(hashes), 4)
        \o [i \in 1 .. HASH_BYTES * Len(hashes) |->
                hashes[((i - 1) \div HASH_BYTES) + 1][((i - 1) % HASH_BYTES) + 1]]

bool_byte(b) == IF b THEN 1 ELSE 0

\* TargetPool::serialize
PoolBytes(pool) ==
    str_bytes(pool.pool_id) \o pool.creator \o le_bytes(pool.target_count, 2)
        \o hash_vec_bytes(pool.targets) \o le_bytes(pool.created_at, 8)
        \o <<bool_byte(pool.finalized)>>

\* Session::serialize
SessionBytes(session) ==
    str_bytes(session.session_id) \o str_bytes(session.pool_id)
        \o session.session_media_hash \o le_bytes(session.submission_slot, 8)
        \o session.submission_blockhash
        \o le_bytes(session.assigned_target_index, 2)
        \o session.target_selector_program \o session.submitter
        \o le_bytes(session.submitted_at, 8)
        \o <<bool_byte(session.finalized)>>
        \o le_bytes(session.finalized_at, 8)
        \o u16_vec_bytes(session.completed_target_indices)

\* TargetPool::try_from_slice: the fields in declaration order, the flag byte
\* 0 or 1, every byte consumed
PoolOfBytes(bytes) ==
    LET id_len == read_len(bytes, 0)
        id_end == 4 + id_len
        count_end == id_end + 32 + 2
        n == read_len(bytes, count_end)
        targets_end == count_end + 4 + HASH_BYTES * n
        id == from_utf8(SubSeq(bytes, 5, id_end))
    IN IF /\ id_len < BeyondBuffer
          /\ id_end <= Len(bytes)
          /\ id.ok
          /\ n < BeyondBuffer
          /\ targets_end + 8 + 1 = Len(bytes)
          /\ bytes[Len(bytes)] \in {0, 1}
       THEN [ok |-> TRUE,
             value |->
                [pool_id |-> id.text,
                 creator |-> SubSeq(bytes, id_end + 1, id_end + 32),
                 target_count |->
                    le_value(SubSeq(bytes, id_end + 33, id_end + 34)),
                 targets |->
                    [i \in 1 .. n |->
                        SubSeq(bytes, count_end + 4 + HASH_BYTES * (i - 1) + 1,
                               count_end + 4 + HASH_BYTES * i)],
                 created_at |->
                    le_value(SubSeq(bytes, targets_end + 1, targets_end + 8)),
                 finalized |-> bytes[Len(bytes)] = 1]]
       ELSE [ok |-> FALSE, value |-> NoPool]

\* Session::try_from_slice
SessionOfBytes(bytes) ==
    LET id_len == read_len(bytes, 0)
        id_end == 4 + id_len
        pool_len == read_len(bytes, id_end)
        at == id_end + 4 + pool_len
        k == read_len(bytes, at + 155)
        id == from_utf8(SubSeq(bytes, 5, id_end))
        pool_id == from_utf8(SubSeq(bytes, id_end + 5, at))
    IN IF /\ id_len < BeyondBuffer
          /\ id_end <= Len(bytes)
          /\ id.ok
          /\ pool_len < BeyondBuffer
          /\ at <= Len(bytes)
          /\ pool_id.ok
          /\ k < BeyondBuffer
          /\ at + 155 + 4 + 2 * k = Len(bytes)
          /\ bytes[at + 147] \in {0, 1}
       THEN [ok |-> TRUE,
             value |->
                [session_id |-> id.text,
                 pool_id |-> pool_id.text,
                 session_media_hash |-> SubSeq(bytes, at + 1, at + 32),
                 submission_slot |-> le_value(SubSeq(bytes, at + 33, at + 40)),
                 submission_blockhash |-> SubSeq(bytes, at + 41, at + 72),
                 assigned_target_index |->
                    le_value(SubSeq(bytes, at + 73, at + 74)),
                 target_selector_program |-> SubSeq(bytes, at + 75, at + 106),
                 submitter |-> SubSeq(bytes, at + 107, at + 138),
                 submitted_at |-> le_value(SubSeq(bytes, at + 139, at + 146)),
                 finalized |-> bytes[at + 147] = 1,
                 finalized_at |-> le_value(SubSeq(bytes, at + 148, at + 155)),
                 completed_target_indices |->
                    [i \in 1 .. k |->
                        le_value(SubSeq(bytes, at + 159 + 2 * i - 1,
                                        at + 159 + 2 * i))]]]
       ELSE [ok |-> FALSE, value |-> NoSession]

\* The account handed in as session account.  The handler checks neither
\* its address nor the type of its record, so the key may be the address of a
\* pool account, whose buffer Session::try_from_slice then reads.
SessionAccountAt(key) ==
    IF key[1] = "session" THEN sessions[key[2]]
    ELSE LET pacct == pools[key[2]]
             read == SessionOfBytes(PoolBytes(pacct.data))
         IN IF PoolParses(pacct) /\ read.ok
            THEN [data_len |-> pacct.data_len, data |-> read.value]
            ELSE EmptySessionAccount

\* session.serialize(..) into the buffer of a pool account: the encoding
\* overwrites the start of the buffer and the bytes behind it stay; the account
\* then holds what TargetPool::try_from_slice reads from the buffer, and NoPool
\* when the buffer no longer parses as a pool
PoolAccountAfterWrite(pacct, session) ==
    LET old == PoolBytes(pacct.data)
        new == SessionBytes(session)
        buffer == new \o SubSeq(old, Len(new) + 1, Len(old))
    IN [data_len |-> pacct.data_len, data |-> PoolOfBytes(buffer).value]

\* variant: only the submitter may finalize
finalize_session_result_submitter_only(session_account, pool_account, authority, session_id, submission_blockhash, completed_target_indices) ==
    LET sacct == SessionAccountAt(session_account)
        session == sacct.data
        pacct == PoolAccountAt(pool_account)
    IN IF ~authority[2] THEN "MissingRequiredSignature"
       ELSE IF ~SessionParses(sacct) THEN "BorshIoError"
       ELSE IF session.session_id # session_id THEN "SessionNotFound"
       ELSE IF session.submitter # authority[1] THEN "InvalidAccountData"
       ELSE IF session.finalized THEN "SessionAlreadyFinalized"
       ELSE IF too_early(clock.slot, session.submission_slot)
       THEN "TooEarlyToFinalize"
       ELSE IF slot_hash_expired(clock.slot, session.submission_slot)
       THEN "InvalidSlotHash"
       ELSE IF ~PoolParses(pacct) THEN "BorshIoError"
       ELSE IF ~blockhash_ok(submission_blockhash) THEN "InvalidSlotHash"
       ELSE IF AvailableIndices(pacct.data.target_count,
                                completed_target_indices) = << >>
       THEN "AllTargetsCompleted"
       ELSE IF SessionSize(finalized_session(
                   session, DecodedText[submission_blockhash].bytes,
                   pacct.data.target_count, completed_target_indices))
               > sacct.data_len
       THEN "BorshIoError"
       ELSE "Ok"

finalize_session_result(session_account, pool_account, authority, session_id, submission_blockhash, completed_target_indices) ==
    LET sacct == SessionAccountAt(session_account)
        session == sacct.data
        pacct == PoolAccountAt(pool_account)
    IN IF ~authority[2] THEN "MissingRequiredSignature"
       ELSE IF ~SessionParses(sacct) THEN "BorshIoError"
       ELSE IF session.session_id # session_id THEN "SessionNotFound"
       ELSE IF session.finalized THEN "SessionAlreadyFinalized"
       ELSE IF too_early(clock.slot, session.submission_slot)
       THEN "TooEarlyToFinalize"
       ELSE IF slot_hash_expired(clock.slot, session.submission_slot)
       THEN "InvalidSlotHash"
       ELSE IF ~PoolParses(pacct) THEN "BorshIoError"
       ELSE IF ~blockhash_ok(submission_blockhash) THEN "InvalidSlotHash"
       ELSE IF AvailableIndices(pacct.data.target_count,
                                completed_target_indices) = << >>
       THEN "AllTargetsCompleted"
       ELSE IF SessionSize(finalized_session(
                   session, DecodedText[submission_blockhash].bytes,
                   pacct.data.target_count, completed_target_indices))
               > sacct.data_len
       THEN "BorshIoError"
       ELSE "Ok"

\* variant: the bytes written before serialization ran out of room are kept
process_finalize_session_keep_partial(session_account, pool_account, authority, session_id, submission_blockhash, completed_target_indices) ==
    LET res == finalize_session_result(session_account, pool_account,
                                       authority, session_id,
                                       submission_blockhash,
                                       completed_target_indices)
        sacct == SessionAccountAt(session_account)
        pacct == PoolAccountAt(pool_account)
        ran_out == res = "BorshIoError" /\ SessionParses(sacct)
                                        /\ PoolParses(pacct)
        written == finalized_session(
                       sacct.data, DecodedText[submission_blockhash].bytes,
                       pacct.data.target_count, completed_target_indices)
        room == Len(sacct.data.completed_target_indices)
    IN /\ last' = [op |-> "FinalizeSession", result |-> res]
       /\ sessions' =
            IF res = "Ok" /\ session_account[1] = "session"
            THEN [sessions EXCEPT ![session_account[2]] =
                    [data_len |-> sacct.data_len, data |-> written]]
            ELSE IF ran_out /\ session_account[1] = "session"
            THEN [sessions EXCEPT ![session_account[2]] =
                    [data_len |-> sacct.data_len,
                     data |-> [written EXCEPT !.completed_target_indices =
                                SubSeq(completed_target_indices, 1, room)]]]
            ELSE sessions
       /\ pools' =
            IF res = "Ok" /\ session_account[1] # "session"
            THEN [pools EXCEPT ![session_account[2]] =
                    PoolAccountAfterWrite(pools[session_account[2]], written)]
            ELSE pools
       /\ UNCHANGED <<clock, sel>>

process_finalize_session(session_account, pool_account, authority, session_id, submission_blockhash, completed_target_indices) ==
    LET res == finalize_session_result(session_account, pool_account,
                                       authority, session_id,
                                       submission_blockhash,
                                       completed_target_indices)
        sacct == SessionAccountAt(session_account)
        written == finalized_session(
                       sacct.data, DecodedText[submission_blockhash].bytes,
                       PoolAccountAt(pool_account).data.target_count,
                       completed_target_indices)
    IN /\ last' = [op |-> "FinalizeSession", result |-> res]
       /\ sessions' =
            IF res = "Ok" /\ session_account[1] = "session"
            THEN [sessions EXCEPT ![session_account[2]] =
                    [data_len |-> sacct.data_len, data |-> written]]
            ELSE sessions
       /\ pools' =
            IF res = "Ok" /\ session_account[1] # "session"
            THEN [pools EXCEPT ![session_account[2]] =
                    PoolAccountAfterWrite(pools[session_account[2]], written)]
            ELSE pools
       /\ UNCHANGED <<clock, sel>>

\* variant: target_count is not updated with the vector
appended_pool_stale_count(pool, target_hashes) ==
    [pool EXCEPT !.targets = pool.targets \o target_hashes]

appended_pool(pool, target_hashes) ==
    [pool EXCEPT
        !.targets = pool.targets \o target_hashes,
        !.target_count = u16(Len(pool.targets \o target_hashes))]

\* variant: the finalized flag is checked before the creator
append_targets_result_finalized_first(pool_account, authority, pool_id, target_hashes, cpi_ok) ==
    LET pacct == PoolAccountAt(pool_account)
        pool == pacct.data
    IN IF ~authority[2] THEN "MissingRequiredSignature"
       ELSE IF find_program_address("target_pool", pool_id) # pool_account
       THEN "InvalidArgument"
       ELSE IF pacct.data_len = 0 THEN "PoolNotFound"
       ELSE IF ~PoolParses(pacct) THEN "BorshIoError"
       ELSE IF pool.finalized THEN "PoolAlreadyFinalized"
       ELSE IF pool.creator # authority[1] THEN "InvalidAccountData"
       ELSE IF Len(target_hashes) = 0 THEN "InvalidTargetCount"
       ELSE IF Len(pool.targets) + Len(target_hashes) > MAX_TARGETS
       THEN "InvalidTargetCount"
       ELSE IF ~cpi_ok THEN "SystemProgramError"
       ELSE "Ok"

append_targets_result(pool_account, authority, pool_id, target_hashes, cpi_ok) ==
    LET pacct == PoolAccountAt(pool_account)
        pool == pacct.data
    IN IF ~authority[2] THEN "MissingRequiredSignature"
       ELSE IF find_program_address("target_pool", pool_id) # pool_account
       THEN "InvalidArgument"
       ELSE IF pacct.data_len = 0 THEN "PoolNotFound"
       ELSE IF ~PoolParses(pacct) THEN "BorshIoError"
       ELSE IF pool.creator # authority[1] THEN "InvalidAccountData"
       ELSE IF pool.finalized THEN "PoolAlreadyFinalized"
       ELSE IF Len(target_hashes) = 0 THEN "InvalidTargetCount"
       ELSE IF Len(pool.targets) + Len(target_hashes) > MAX_TARGETS
       THEN "InvalidTargetCount"
       ELSE IF ~cpi_ok THEN "SystemProgramError"
       ELSE IF PoolSize(appended_pool(pool, target_hashes))
               > pacct.data_len + Len(target_hashes) * HASH_BYTES
       THEN "BorshIoError"
       ELSE "Ok"

process_append_targets_to_pool(pool_account, authority, pool_id, target_hashes, cpi_ok) ==
    LET res == append_targets_result(pool_account, authority, pool_id,
                                     target_hashes, cpi_ok)
        pacct == PoolAccountAt(pool_account)
    IN /\ last' = [op |-> "AppendTargetsToPool", result |-> res]
       /\ pools' =
            IF res = "Ok"
            THEN [pools EXCEPT ![pool_id] =
                    [data_len |->
                        pacct.data_len + Len(target_hashes) * HASH_BYTES,
                     data |-> appended_pool(pacct.data, target_hashes)]]
            ELSE pools
       /\ UNCHANGED <<sessions, clock, sel>>

\* variant: a pool without targets may be finalized
finalize_pool_result_allow_empty(pool_account, authority, pool_id) ==
    LET pacct == PoolAccountAt(pool_account)
        pool == pacct.data
    IN IF ~authority[2] THEN "MissingRequiredSignature"
       ELSE IF find_program_address("target_pool", pool_id) # pool_account
       THEN "InvalidArgument"
       ELSE IF pacct.data_len = 0 THEN "PoolNotFound"
       ELSE IF ~PoolParses(pacct) THEN "BorshIoError"
       ELSE IF pool.creator # authority[1] THEN "InvalidAccountData"
       ELSE IF pool.finalized THEN "PoolAlreadyFinalized"
       ELSE "Ok"

finalize_pool_result(pool_account, authority, pool_id) ==
    LET pacct == PoolAccountAt(pool_account)
        pool == pacct.data
    IN IF ~authority[2] THEN "MissingRequiredSignature"
       ELSE IF find_program_address("target_pool", pool_id) # pool_account
       THEN "InvalidArgument"
       ELSE IF pacct.data_len = 0 THEN "PoolNotFound"
       ELSE IF ~PoolParses(pacct) THEN "BorshIoError"
       ELSE IF pool.creator # authority[1] THEN "InvalidAccountData"
       ELSE IF pool.finalized THEN "PoolAlreadyFinalized"
       ELSE IF Len(pool.targets) = 0 THEN "InvalidTargetCount"
       ELSE IF PoolSize([pool EXCEPT !.finalized = TRUE]) > pacct.data_len
       THEN "BorshIoError"
       ELSE "Ok"

process_finalize_pool(pool_account, authority, pool_id) ==
    LET res == finalize_pool_result(pool_account, authority, pool_id)
        pacct == PoolAccountAt(pool_account)
    IN /\ last' = [op |-> "FinalizePool", result |-> res]
       /\ pools' =
            IF res = "Ok"
            THEN [pools EXCEPT ![pool_id] =
                    [pacct EXCEPT !.data.finalized = TRUE]]
            ELSE pools
       /\ UNCHANGED <<sessions, clock, sel>>

(***************************************************************************)
(* The host clock                                                           *)
(***************************************************************************)
\* Clock sysvar at a slot: slots last 400 ms, unix_timestamp counts seconds
ClockAt(slot) == [slot |-> slot, unix_timestamp |-> 1 + (slot * 2) \div 5]

Tick ==
    \E t \in SlotSamples :
        /\ t > clock.slot
        /\ clock' = ClockAt(t)
        /\ last' = [op |-> "Tick", result |-> "Ok"]
        /\ UNCHANGED <<pools, sessions, sel>>

(***************************************************************************)
(* Requests: one record per instruction as it reaches the program, the      *)
(* accounts it names included                                               *)
(***************************************************************************)
PoolKey(pool_id) == find_program_address("target_pool", pool_id)
SessionKey(session_id) == find_program_address("session", session_id)

CreateRequest(authority, pool_id, target_hashes) ==
    [pool_account |-> PoolKey(pool_id), authority |-> authority,
     pool_id |-> pool_id, target_hashes |-> target_hashes, cpi_ok |-> TRUE]

SubmitRequest(authority, session_id, pool_id, pool_account, completed) ==
    [session_account |-> SessionKey(session_id), pool_account |-> pool_account,
     authority |-> authority, session_id |-> session_id, pool_id |-> pool_id,
     session_media_hash |-> "m1", target_selector_program |-> "sel",
     completed_target_indices |-> completed, cpi_ok |-> TRUE]

FinalizeRequest(authority, session_id, pool_account, text, completed) ==
    [session_account |-> SessionKey(session_id), pool_account |-> pool_account,
     authority |-> authority, session_id |-> session_id,
     submission_blockhash |-> text, completed_target_indices |-> completed]

FinalizePoolRequest(authority, pool_id) ==
    [pool_account |-> PoolKey(pool_id), authority |-> authority,
     pool_id |-> pool_id]

DoCreateTargetPool(r) ==
    process_create_target_pool(r.pool_account, r.authority, r.pool_id,
                               r.target_hashes, r.cpi_ok)

DoSubmitSession(r) ==
    process_submit_session(r.session_account, r.pool_account, r.authority,
                           r.session_id, r.pool_id, r.session_media_hash,
                           r.target_selector_program,
                           r.completed_target_indices, r.cpi_ok)

DoFinalizeSession(r) ==
    process_finalize_session(r.session_account, r.pool_account, r.authority,
                             r.session_id, r.submission_blockhash,
                             r.completed_target_indices)

DoAppendTargetsToPool(r) ==
    process_append_targets_to_pool(r.pool_account, r.authority, r.pool_id,
                                   r.target_hashes, r.cpi_ok)

DoFinalizePool(r) ==
    process_finalize_pool(r.pool_account, r.authority, r.pool_id)

\* the model lets a pool grow to MaxPoolLen targets
WithinPoolBound(r) ==
    Len(pools[r.pool_id].data.targets) + Len(r.target_hashes) <= MaxPoolLen

\* sel holds one evaluation of the selector; the instruction handlers leave
\* it alone
NoSelection == [blockhash |-> ZeroHash, target_count |-> 0, index |-> -1]

Init ==
    /\ pools = [p \in PoolIdArgs |-> EmptyPoolAccount]
    /\ sessions = [s \in SessionIdArgs |-> EmptySessionAccount]
    /\ clock = ClockAt(0)
    /\ last = [op |-> "Init", result |-> "Ok"]
    /\ sel = NoSelection

(***************************************************************************)
(* Spec: the five instructions against pool p1 and session s1              *)
(***************************************************************************)
CreateRequests ==
    {CreateRequest(Signed(a), "p1", b) :
        a \in {"alice", "bob"}, b \in {<< >>, <<"h1">>, FiveTargets}}
    \cup {CreateRequest(Unsigned("bob"), "p1", <<"h1">>),
          CreateRequest(Signed("bob"), "", <<"h1">>),
          [CreateRequest(Signed("bob"), "p1", <<"h1">>)
            EXCEPT !.cpi_ok = FALSE],
          [CreateRequest(Signed("bob"), "p2", <<"h1">>)
            EXCEPT !.pool_account = PoolKey("p1")]}

AppendRequests ==
    {CreateRequest(Signed(a), "p1", b) :
        a \in {"alice", "bob"}, b \in {<< >>, <<"h2", "h3", "h4", "h5">>}}
    \cup {CreateRequest(Unsigned("bob"), "p1", <<"h2", "h3", "h4", "h5">>),
          [CreateRequest(Signed("alice"), "p1", <<"h2", "h3", "h4", "h5">>)
            EXCEPT !.cpi_ok = FALSE]}

FinalizePoolRequests ==
    {FinalizePoolRequest(a, "p1") :
        a \in {Signed("alice"), Signed("bob"), Unsigned("bob")}}

SubmitRequests ==
    {SubmitRequest(Signed("alice"), "s1", "p1", PoolKey("p1"), c) :
        c \in {<< >>, <<0, 0, 9>>}}
    \cup {SubmitRequest(Signed("alice"), "s1", "p1", <<"foreign", "fake">>, << >>),
          SubmitRequest(Signed("alice"), "", "p1", PoolKey("p1"), << >>)}

FinalizeLists == {<< >>, <<2>>, <<0, 0, 9>>, <<0, 1, 2, 3, 4>>}

FinalizeRequests ==
    {FinalizeRequest(Signed("alice"), "s1", PoolKey("p1"), t, c) :
        t \in {TextSeven, TextZero}, c \in FinalizeLists}
    \cup {FinalizeRequest(Signed(a), "s1", k, TextSeven, c) :
            a \in {"alice", "bob"},
            k \in {PoolKey("p1"), <<"foreign", "fake">>},
            c \in {<< >>, <<2>>}}
    \cup {FinalizeRequest(Signed("bob"), "s1", PoolKey("p1"), t, << >>) :
            t \in {TextShort, TextBadChar, TextEmpty}}
    \cup {FinalizeRequest(Unsigned("bob"), "s1", PoolKey("p1"), TextSeven, << >>)}
    \cup {[FinalizeRequest(Signed("bob"), "", PoolKey("p1"), TextSeven, << >>)
            EXCEPT !.session_account = SessionKey("s1")]}
    \cup {FinalizeRequest(Signed("bob"), "s2", PoolKey("p1"), TextSeven, << >>)}

CreateTargetPool ==
    \E r \in CreateRequests : WithinPoolBound(r) /\ DoCreateTargetPool(r)

SubmitSession == \E r \in SubmitRequests : DoSubmitSession(r)

FinalizeSession == \E r \in FinalizeRequests : DoFinalizeSession(r)

AppendTargetsToPool ==
    \E r \in AppendRequests : WithinPoolBound(r) /\ DoAppendTargetsToPool(r)

FinalizePool == \E r \in FinalizePoolRequests : DoFinalizePool(r)

Next ==
    \/ CreateTargetPool
    \/ SubmitSession
    \/ FinalizeSession
    \/ AppendTargetsToPool
    \/ FinalizePool
    \/ Tick

Spec == Init /\ [][Next]_vars

(***************************************************************************)
(* Claims checked under Spec                                                *)
(***************************************************************************)
Elements(seq) == {seq[j] : j \in 1 .. Len(seq)}

\* the request reaches the stored, unfinalized session it names, signed
OnUnfinalizedSession(r) ==
    /\ r.authority[2]
    /\ sessions[r.session_account[2]].data_len > 0
    /\ sessions[r.session_account[2]].data.session_id = r.session_id
    /\ ~sessions[r.session_account[2]].data.finalized

\* C1: a stored session keeps assigned_target_index = 65535 until a
\* FinalizeSession on it succeeds; only a successful FinalizeSession changes
\* the index, and the index it stores is below the target_count of the pool
\* account that call read and is not in the completed list of that call.
C1_IndexSentinelThenValid ==
    [][/\ \A s \in SessionIds :
            (sessions'[s].data_len > 0 /\ ~sessions'[s].data.finalized)
                => sessions'[s].data.assigned_target_index = U16_MAX
       /\ \A s \in SessionIds :
            (sessions'[s].data_len > 0 /\ sessions[s].data_len > 0
             /\ sessions'[s].data.assigned_target_index
                    # sessions[s].data.assigned_target_index)
                => last' = [op |-> "FinalizeSession", result |-> "Ok"]
       /\ last' = [op |-> "FinalizeSession", result |-> "Ok"]
            => \A r \in FinalizeRequests :
                DoFinalizeSession(r)
                    => LET stored == sessions'[r.session_account[2]].data
                           n == PoolAccountAt(r.pool_account).data.target_count
                       IN /\ stored.finalized
                          /\ stored.assigned_target_index >= 0
                          /\ stored.assigned_target_index < n
                          /\ stored.assigned_target_index
                                \notin Elements(r.completed_target_indices)
      ]_vars

C1_Witness ==
    /\ last = [op |-> "FinalizeSession", result |-> "Ok"]
    /\ sessions["s1"].data.finalized
    /\ sessions["s1"].data.completed_target_indices = <<0, 0, 9>>
    /\ sessions["s1"].data.submission_blockhash = ZeroHash
    /\ sessions["s1"].data.assigned_target_index = 1

\* C2: a signed FinalizeSession on a stored, unfinalized session submitted at
\* slot m and executed at slot c returns TooEarlyToFinalize when c < m + 2 and
\* InvalidSlotHash when c > m + 150, whatever its blockhash text; it succeeds
\* only with m + 2 <= c <= m + 150.
C2_FinalizeWindow ==
    [][last'.op = "FinalizeSession"
        => \A r \in FinalizeRequests :
            OnUnfinalizedSession(r)
                => LET m == sessions[r.session_account[2]].data.submission_slot
                       c == clock.slot
                   IN \/ /\ c < m + 2 => last'.result = "TooEarlyToFinalize"
                         /\ c > m + 150 => last'.result = "InvalidSlotHash"
                         /\ last'.result = "Ok" => (m + 2 <= c /\ c <= m + 150)
                      \/ ~DoFinalizeSession(r)
      ]_vars

C2_Witness ==
    /\ last = [op |-> "FinalizeSession", result |-> "InvalidSlotHash"]
    /\ sessions["s1"].data_len > 0
    /\ ~sessions["s1"].data.finalized
    /\ clock.slot = sessions["s1"].data.submission_slot + 151

\* the request is signed and names a stored session that is finalized
OnFinalizedSession(r) ==
    /\ r.authority[2]
    /\ sessions[r.session_account[2]].data_len > 0
    /\ sessions[r.session_account[2]].data.session_id = r.session_id
    /\ sessions[r.session_account[2]].data.finalized

\* C3: every FinalizeSession on a session that is already finalized returns
\* SessionAlreadyFinalized and leaves the session record unchanged, whatever
\* the lengths of the completed lists given at submit and at the first
\* finalize.
C3_SecondFinalizeRejected ==
    [][last'.op = "FinalizeSession"
        => \A r \in FinalizeRequests :
            OnFinalizedSession(r)
                => \/ /\ last'.result = "SessionAlreadyFinalized"
                      /\ sessions' = sessions
                   \/ ~DoFinalizeSession(r)
      ]_vars

\* (sum of bytes[i] * 256^(8-i)) mod k over the first eight bytes, each power
\* reduced mod k first
RECURSIVE PowMod(_, _, _)
PowMod(base, e, k) == IF e = 0 THEN 1 % k ELSE (base * PowMod(base, e - 1, k)) % k

RECURSIVE WeightedSum(_, _, _)
WeightedSum(bytes, i, k) ==
    IF i > 8 THEN 0
    ELSE bytes[i] * PowMod(256, 8 - i, k) + WeightedSum(bytes, i + 1, k)

BigEndianMod(bytes, k) == WeightedSum(bytes, 1, k) % k

\* C5: a successful FinalizeSession stores the available index of rank
\* v mod |available|, available being the pool indices below the target_count
\* read that are not in the completed list of the call and v the big-endian
\* value of the first eight stored entropy bytes; with 5 targets and v = 7 an
\* empty list gives 2 and the list <<2>> gives 4.
C5_AssignedIsAvailableAtRank ==
    [][last' = [op |-> "FinalizeSession", result |-> "Ok"]
        => \A r \in FinalizeRequests :
            DoFinalizeSession(r)
                => LET stored == sessions'[r.session_account[2]].data
                       n == PoolAccountAt(r.pool_account).data.target_count
                       avail == {i \in 0 .. n - 1 :
                                    i \notin Elements(r.completed_target_indices)}
                       idx == stored.assigned_target_index
                   IN /\ idx \in avail
                      /\ Cardinality({y \in avail : y < idx})
                            = BigEndianMod(stored.submission_blockhash,
                                           Cardinality(avail))
                      /\ (n = 5 /\ SubSeq(stored.submission_blockhash, 1, 8)
                                      = <<0, 0, 0, 0, 0, 0, 0, 7>>)
                            => /\ r.completed_target_indices = << >> => idx = 2
                               /\ r.completed_target_indices = <<2>> => idx = 4
                               /\ r.completed_target_indices = <<0, 0, 9>>
                                    => idx = 4
      ]_vars

C5_Witness ==
    /\ last = [op |-> "FinalizeSession", result |-> "Ok"]
    /\ pools["p1"].data.target_count = 5
    /\ sessions["s1"].data.finalized
    /\ SubSeq(sessions["s1"].data.submission_blockhash, 1, 8)
            = <<0, 0, 0, 0, 0, 0, 0, 7>>
    /\ sessions["s1"].data.completed_target_indices = <<2>>
    /\ sessions["s1"].data.assigned_target_index = 4

\* C4: once a pool is finalized it stays finalized and its targets and
\* target_count never change again, whatever instruction is executed.
C4_FinalizedPoolFrozen ==
    [][\A p \in PoolIds :
        (pools[p].data_len > 0 /\ pools[p].data.finalized)
            => /\ pools'[p].data_len > 0
               /\ pools'[p].data.finalized
               /\ pools'[p].data.targets = pools[p].data.targets
               /\ pools'[p].data.target_count = pools[p].data.target_count
      ]_vars

\* the request is signed and names a stored pool that is finalized
OnFinalizedPool(r) ==
    /\ r.authority[2]
    /\ pools[r.pool_id].data_len > 0
    /\ pools[r.pool_id].data.finalized

\* C7 as claimed: AppendTargetsToPool on a finalized pool returns
\* PoolAlreadyFinalized and leaves the pool unchanged for every caller and
\* every target_hashes.
C7_AppendOnFinalizedAnyCaller ==
    [][last'.op = "AppendTargetsToPool"
        => \A r \in AppendRequests :
            OnFinalizedPool(r)
                => \/ /\ last'.result = "PoolAlreadyFinalized"
                      /\ pools' = pools
                   \/ ~(WithinPoolBound(r) /\ DoAppendTargetsToPool(r))
      ]_vars

\* C7 amended: AppendTargetsToPool on a finalized pool fails and leaves the
\* pool unchanged for every caller and every target_hashes; the error is
\* PoolAlreadyFinalized when the signer is the pool's creator and
\* InvalidAccountData when the signer is anyone else.
C7_AppendOnFinalizedFails ==
    [][last'.op = "AppendTargetsToPool"
        => \A r \in AppendRequests :
            OnFinalizedPool(r)
                => \/ /\ pools' = pools
                      /\ last'.result =
                            IF r.authority[1] = pools[r.pool_id].data.creator
                            THEN "PoolAlreadyFinalized"
                            ELSE "InvalidAccountData"
                   \/ ~(WithinPoolBound(r) /\ DoAppendTargetsToPool(r))
      ]_vars

C7_Witness ==
    /\ pools["p1"].data.finalized
    /\ pools["p1"].data.creator = "bob"
    /\ pools["p1"].data.targets = FiveTargets
    /\ last = [op |-> "AppendTargetsToPool", result |-> "PoolAlreadyFinalized"]

\* the request is signed by the creator of the stored pool it names
ByCreator(r) ==
    /\ r.authority[2]
    /\ pools[r.pool_id].data_len > 0
    /\ pools[r.pool_id].data.creator = r.authority[1]

\* C8: FinalizePool by the creator returns InvalidTargetCount and changes
\* nothing when the pool has no targets, succeeds and sets only finalized when
\* the pool has a target and is not finalized, and returns
\* PoolAlreadyFinalized and changes nothing when the pool is finalized.
C8_FinalizePoolOutcomes ==
    [][last'.op = "FinalizePool"
        => \A r \in FinalizePoolRequests :
            ByCreator(r)
                => LET pool == pools[r.pool_id].data
                   IN \/ IF pool.finalized
                         THEN /\ last'.result = "PoolAlreadyFinalized"
                              /\ pools' = pools
                         ELSE IF Len(pool.targets) = 0
                         THEN /\ last'.result = "InvalidTargetCount"
                              /\ pools' = pools
                         ELSE /\ last'.result = "Ok"
                              /\ pools' = [pools EXCEPT
                                    ![r.pool_id].data.finalized = TRUE]
                      \/ ~DoFinalizePool(r)
      ]_vars

C8_Witness ==
    /\ pools["p1"].data.finalized
    /\ Len(pools["p1"].data.targets) = 5
    /\ last = [op |-> "FinalizePool", result |-> "PoolAlreadyFinalized"]

\* C10: a signed CreateTargetPool naming a pool_id whose account already
\* holds a pool returns PoolAlreadyExists, whoever signs and whatever the
\* hashes, and leaves the pool unchanged; no instruction ever changes a stored
\* pool's pool_id, creator or created_at.
C10_CreateExistingRejected ==
    [][/\ \A p \in PoolIds :
            pools[p].data_len > 0
                => /\ pools'[p].data_len > 0
                   /\ pools'[p].data.pool_id = pools[p].data.pool_id
                   /\ pools'[p].data.creator = pools[p].data.creator
                   /\ pools'[p].data.created_at = pools[p].data.created_at
       /\ last'.op = "CreateTargetPool"
            => \A r \in CreateRequests :
                (/\ r.authority[2]
                 /\ r.pool_account = PoolKey(r.pool_id)
                 /\ pools[r.pool_id].data_len > 0)
                    => \/ /\ last'.result = "PoolAlreadyExists"
                          /\ pools' = pools
                       \/ ~(WithinPoolBound(r) /\ DoCreateTargetPool(r))
      ]_vars

C10_Witness ==
    /\ pools["p1"].data.creator = "alice"
    /\ pools["p1"].data.created_at < clock.unix_timestamp
    /\ pools["p1"].data.targets = <<"h1">>
    /\ last = [op |-> "CreateTargetPool", result |-> "PoolAlreadyExists"]

(***************************************************************************)
(* SpecSelect: the selector as a pure function.  Init draws an entropy and  *)
(* a target_count; Select applies calculate_target_index to them.           *)
(***************************************************************************)
\* target_count is drawn from 1 .. MaxSelectCount and the two extremes
MaxSelectCount == 10

SelectPrefixes ==
    {SubSeq(DecodedText[TextSeven].bytes, 1, ENTROPY_PREFIX_BYTES),
     SubSeq(DecodedText[TextOnes].bytes, 1, ENTROPY_PREFIX_BYTES),
     SubSeq(ZeroHash, 1, ENTROPY_PREFIX_BYTES),
     <<0, 0, 0, 0, 0, 0, 1, 0>>,
     <<1, 0, 0, 0, 0, 0, 0, 0>>,
     <<255, 255, 255, 255, 255, 255, 255, 255>>}

SelectTails ==
    {SubSeq(DecodedText[t].bytes, ENTROPY_PREFIX_BYTES + 1, HASH_BYTES) :
        t \in {TextSeven, TextOnes, TextZero}}

SelectCounts == (1 .. MaxSelectCount) \cup {MAX_TARGETS, U16_MAX}

InitSelect ==
    /\ pools = [p \in PoolIdArgs |-> EmptyPoolAccount]
    /\ sessions = [s \in SessionIdArgs |-> EmptySessionAccount]
    /\ clock = ClockAt(0)
    /\ last = [op |-> "Init", result |-> "Ok"]
    /\ \E prefix \in SelectPrefixes, tail \in SelectTails, n \in SelectCounts :
        sel = [blockhash |-> prefix \o tail, target_count |-> n, index |-> -1]

Select ==
    /\ sel.index = -1
    /\ sel' = [sel EXCEPT !.index =
                calculate_target_index(sel.blockhash, sel.target_count)]
    /\ last' = [op |-> "Select", result |-> "Ok"]
    /\ UNCHANGED <<pools, sessions, clock>>

NextSelect == Select

SpecSelect == InitSelect /\ [][NextSelect]_vars

\* C6: calculate_target_index(entropy, n) with n >= 1 is the unsigned
\* big-endian value of entropy bytes 0..7 modulo n, so it lies in 0 .. n-1
\* and does not depend on entropy bytes 8..31.
C6_SelectorIsPrefixModN ==
    sel.index # -1
        => LET prefix == SubSeq(sel.blockhash, 1, 8)
               n == sel.target_count
           IN /\ sel.index = BigEndianMod(prefix, n)
              /\ 0 <= sel.index /\ sel.index < n
              /\ \A tail \in SelectTails :
                    calculate_target_index(prefix \o tail, n) = sel.index
              /\ (prefix = <<0, 0, 0, 0, 0, 0, 0, 7>> /\ n = 5) => sel.index = 2
              /\ (prefix = <<0, 0, 0, 0, 0, 0, 0, 7>> /\ n = 4) => sel.index = 3
              /\ (prefix = <<0, 0, 0, 0, 0, 0, 1, 0>> /\ n = 10) => sel.index = 6

C6_Witness ==
    /\ sel.blockhash = DecodedText[TextSeven].bytes
    /\ sel.target_count = 5
    /\ sel.index = 2

(***************************************************************************)
(* SpecLimit: the pool instructions with batches at the MAX_TARGETS limit   *)
(***************************************************************************)
\* batches are LimitSlack short of, at, and LimitSlack over MAX_TARGETS
LimitSlack == 1

Batch(n) == [i \in 1 .. n |-> "h1"]

LimitCreateRequests ==
    {CreateRequest(Signed(a), p, Batch(n)) :
        a \in {"alice", "bob"}, p \in PoolIds,
        n \in {0, LimitSlack, MAX_TARGETS, MAX_TARGETS + LimitSlack}}

LimitAppendRequests ==
    {CreateRequest(Signed(a), p, Batch(n)) :
        a \in {"alice", "bob"}, p \in PoolIds,
        n \in {0, MAX_TARGETS - LimitSlack, MAX_TARGETS}}

LimitFinalizePoolRequests ==
    {FinalizePoolRequest(Signed(a), p) : a \in {"alice", "bob"}, p \in PoolIds}

CreateLargePool == \E r \in LimitCreateRequests : DoCreateTargetPool(r)

AppendLargeBatch == \E r \in LimitAppendRequests : DoAppendTargetsToPool(r)

FinalizeLargePool == \E r \in LimitFinalizePoolRequests : DoFinalizePool(r)

NextLimit ==
    \/ CreateLargePool
    \/ AppendLargeBatch
    \/ FinalizeLargePool

SpecLimit == Init /\ [][NextLimit]_vars

MissingAuthority == "MissingRequiredSignature"
Unauthorized == "InvalidAccountData"

\* the outcome C11 requires of a pool-mutating request r: without a signature
\* it fails with MissingAuthority; signed by someone other than the stored
\* creator of an existing pool it fails with Unauthorized; the pools are
\* unchanged in both cases
RejectsNonCreator(r) ==
    /\ ~r.authority[2]
        => last'.result = MissingAuthority /\ pools' = pools
    /\ (/\ r.authority[2]
        /\ pools[r.pool_id].data_len > 0
        /\ pools[r.pool_id].data.creator # r.authority[1])
        => last'.result = Unauthorized /\ pools' = pools

\* C11 where FinalizeSession is handed session addresses only (Spec): an
\* AppendTargetsToPool or FinalizePool whose signer differs from the
\* pool's stored creator fails with Unauthorized and one without a signature
\* fails with MissingAuthority, the pool unchanged; every change of an
\* existing pool's targets or finalized flag is made by a request signed by
\* its creator.
C11_OnlyCreatorMutates ==
    [][/\ last'.op = "AppendTargetsToPool"
            => \A r \in AppendRequests :
                \/ RejectsNonCreator(r)
                \/ ~(WithinPoolBound(r) /\ DoAppendTargetsToPool(r))
       /\ last'.op = "FinalizePool"
            => \A r \in FinalizePoolRequests :
                RejectsNonCreator(r) \/ ~DoFinalizePool(r)
       /\ \A p \in PoolIds :
            (/\ pools[p].data_len > 0
             /\ \/ pools'[p].data.targets # pools[p].data.targets
                \/ pools'[p].data.finalized # pools[p].data.finalized)
                => \E r \in AppendRequests \cup FinalizePoolRequests :
                    /\ r.pool_id = p
                    /\ r.authority = Signed(pools[p].data.creator)
                    /\ \/ /\ r \in AppendRequests
                          /\ DoAppendTargetsToPool(r)
                       \/ /\ r \in FinalizePoolRequests
                          /\ DoFinalizePool(r)
      ]_vars

\* C12 where FinalizeSession is handed session addresses only (Spec): the
\* targets of a stored pool only grow at the end: after any step the
\* earlier sequence is a prefix of the later one; a successful
\* AppendTargetsToPool stores the old targets followed by target_hashes in the
\* given order; an AppendTargetsToPool with no hashes never succeeds and, when
\* signed by the creator of an unfinalized pool, fails with InvalidTargetCount.
C12_TargetsAppendOnly ==
    [][/\ \A p \in PoolIds :
            pools[p].data_len > 0
                => LET old == pools[p].data.targets
                       new == pools'[p].data.targets
                   IN /\ pools'[p].data_len > 0
                      /\ Len(new) >= Len(old)
                      /\ \A i \in 1 .. Len(old) : new[i] = old[i]
       /\ last'.op = "AppendTargetsToPool"
            => \A r \in AppendRequests :
                \/ /\ last'.result = "Ok"
                        => pools'[r.pool_id].data.targets
                            = pools[r.pool_id].data.targets \o r.target_hashes
                   /\ r.target_hashes = << >>
                        => /\ last'.result # "Ok"
                           /\ pools' = pools
                           /\ (ByCreator(r) /\ ~pools[r.pool_id].data.finalized)
                                => last'.result = "InvalidTargetCount"
                \/ ~(WithinPoolBound(r) /\ DoAppendTargetsToPool(r))
      ]_vars

Instructions ==
    {"CreateTargetPool", "SubmitSession", "FinalizeSession",
     "AppendTargetsToPool", "FinalizePool"}

PlainRetry(r) ==
    /\ r.completed_target_indices
        = sessions[r.session_account[2]].data.completed_target_indices
    /\ r.pool_account = PoolKey("p1")
    /\ pools["p1"].data_len > 0
    /\ \E i \in 0 .. pools["p1"].data.target_count - 1 :
        i \notin Elements(r.completed_target_indices)
    /\ r.submission_blockhash \in {TextSeven, TextZero}

\* C14: the slot never decreases; a stored unfinalized session whose window
\* has lapsed (slot > submission_slot + 150) is unchanged by every step; a
\* FinalizeSession that fails with TooEarlyToFinalize leaves the sessions
\* unchanged, and a FinalizeSession at a slot in
\* [submission_slot + 2, submission_slot + 150] on an unfinalized session
\* succeeds whatever was attempted before.
C14_ExpiryPermanentEarlyRetryable ==
    [][/\ clock'.slot >= clock.slot
       /\ \A s \in SessionIds :
            (/\ sessions[s].data_len > 0
             /\ ~sessions[s].data.finalized
             /\ clock.slot > sessions[s].data.submission_slot + 150)
                => sessions'[s] = sessions[s]
       /\ last' = [op |-> "FinalizeSession", result |-> "TooEarlyToFinalize"]
            => sessions' = sessions
       /\ last'.op = "FinalizeSession"
            => \A r \in FinalizeRequests :
                (/\ OnUnfinalizedSession(r)
                 /\ PlainRetry(r)
                 /\ clock.slot >= sessions[r.session_account[2]].data
                                    .submission_slot + 2
                 /\ clock.slot <= sessions[r.session_account[2]].data
                                    .submission_slot + 150)
                    => \/ /\ last'.result = "Ok"
                          /\ sessions'[r.session_account[2]].data.finalized
                       \/ ~DoFinalizeSession(r)
      ]_vars

C14_Witness ==
    /\ sessions["s1"].data_len > 0
    /\ ~sessions["s1"].data.finalized
    /\ clock.slot = sessions["s1"].data.submission_slot + 1
    /\ last = [op |-> "FinalizeSession", result |-> "TooEarlyToFinalize"]

(***************************************************************************)
(* SpecFinalize: sessions submitted by alice against a pool of alice and     *)
(* finalized by other signers                                               *)
(***************************************************************************)
SetupCreateRequests ==
    {CreateRequest(Signed("alice"), "p1", b) : b \in {<<"h1">>, FiveTargets}}

SetupSubmitRequests ==
    {SubmitRequest(Signed("alice"), "s1", "p1", PoolKey("p1"), c) :
        c \in {<< >>, <<0, 0, 9>>}}

OtherFinalizeRequests ==
    {FinalizeRequest(Signed(a), "s1", k, t, c) :
        a \in {"bob", "carol"},
        k \in {PoolKey("p1"), <<"foreign", "fake">>},
        t \in {TextSeven, TextOnes, TextShort},
        c \in {<< >>, <<2>>, <<0, 0, 9>>}}
    \cup {FinalizeRequest(Unsigned("bob"), "s1", PoolKey("p1"), TextSeven, << >>)}

CreateSetupPool == \E r \in SetupCreateRequests : DoCreateTargetPool(r)

SubmitSetupSession == \E r \in SetupSubmitRequests : DoSubmitSession(r)

FinalizeByOther == \E r \in OtherFinalizeRequests : DoFinalizeSession(r)

NextFinalize ==
    \/ CreateSetupPool
    \/ SubmitSetupSession
    \/ FinalizeByOther
    \/ Tick

SpecFinalize == Init /\ [][NextFinalize]_vars

Callers == {"alice", "bob", "carol"}

\* C15: a FinalizeSession step taken by one signer is, for every other
\* signer, also the step of the same request signed by that signer (same
\* result, same stored sessions); inside the window a FinalizeSession by a
\* signer other than the submitter succeeds.
C15_FinalizeCallerIndependent ==
    [][last'.op = "FinalizeSession"
        => \A r \in OtherFinalizeRequests :
            (r.authority[2] /\ DoFinalizeSession(r))
                => /\ \A a \in Callers :
                        DoFinalizeSession([r EXCEPT !.authority = Signed(a)])
                   /\ (/\ OnUnfinalizedSession(r)
                       /\ PlainRetry(r)
                       /\ r.authority[1] #
                            sessions[r.session_account[2]].data.submitter
                       /\ clock.slot >= sessions[r.session_account[2]].data
                                            .submission_slot + 2
                       /\ clock.slot <= sessions[r.session_account[2]].data
                                            .submission_slot + 150)
                        => last'.result = "Ok"
      ]_vars

\* under SpecFinalize alice submits and never signs a FinalizeSession
C15_Witness ==
    /\ sessions["s1"].data.finalized
    /\ sessions["s1"].data.submitter = "alice"
    /\ sessions["s1"].data.submission_blockhash = DecodedText[TextOnes].bytes
    /\ last = [op |-> "FinalizeSession", result |-> "Ok"]

(***************************************************************************)
(* SpecSubmit: SubmitSession with every combination of session id, pool id  *)
(* and presented pool account, against pools of alice                       *)
(***************************************************************************)
SubmitAnyRequests ==
    {SubmitRequest(Signed(a), sid, pid, k, c) :
        a \in {"alice", "bob"},
        sid \in {"s1", ""},
        pid \in {"p1", "p2", ""},
        k \in {PoolKey("p1"), PoolKey("p2"), <<"foreign", "fake">>},
        c \in {<< >>, <<0, 0, 9>>}}
    \cup {SubmitRequest(Unsigned("bob"), "s1", "p1", PoolKey("p1"), << >>),
          [SubmitRequest(Signed("bob"), "s1", "p1", PoolKey("p1"), << >>)
            EXCEPT !.cpi_ok = FALSE],
          [SubmitRequest(Signed("bob"), "s2", "p1", PoolKey("p1"), << >>)
            EXCEPT !.session_account = SessionKey("s1")]}

SubmitAny == \E r \in SubmitAnyRequests : DoSubmitSession(r)

NextSubmit ==
    \/ CreateSetupPool
    \/ SubmitAny
    \/ Tick

SpecSubmit == Init /\ [][NextSubmit]_vars

\* the request is signed and names the address derived from its session_id
WellAddressedSubmit(r) ==
    /\ r.authority[2]
    /\ r.session_account = SessionKey(r.session_id)

\* C16: a successful SubmitSession stores a new session with all-zero
\* entropy, assigned_target_index 65535, finalized false, the signer as
\* submitter and the current slot as submission_slot; a signed SubmitSession
\* fails with SessionAlreadyExists, the record unchanged, when the session_id
\* has a record, with InvalidSessionId when session_id is empty, and with
\* InvalidPoolId when pool_id is empty (session_id being new and non-empty).
C16_SubmitStoresFreshSession ==
    [][last'.op = "SubmitSession"
        => \A r \in SubmitAnyRequests :
            \/ /\ last'.result = "Ok"
                    => LET s == sessions'[r.session_id].data
                       IN /\ sessions[r.session_id].data_len = 0
                          /\ sessions'[r.session_id].data_len > 0
                          /\ s.session_id = r.session_id
                          /\ s.pool_id = r.pool_id
                          /\ s.submission_blockhash = [i \in 1 .. 32 |-> 0]
                          /\ s.assigned_target_index = 65535
                          /\ ~s.finalized
                          /\ s.submitter = r.authority[1]
                          /\ s.submission_slot = clock.slot
                          /\ s.completed_target_indices
                                = r.completed_target_indices
               /\ (WellAddressedSubmit(r)
                   /\ sessions[r.session_id].data_len > 0)
                    => /\ last'.result = "SessionAlreadyExists"
                       /\ sessions' = sessions
               /\ (WellAddressedSubmit(r) /\ r.session_id = "")
                    => last'.result = "InvalidSessionId"
               /\ (/\ WellAddressedSubmit(r)
                   /\ r.session_id # ""
                   /\ sessions[r.session_id].data_len = 0
                   /\ r.pool_id = "")
                    => last'.result = "InvalidPoolId"
            \/ ~DoSubmitSession(r)
      ]_vars

C16_Witness ==
    /\ sessions["s1"].data_len > 0
    /\ sessions["s1"].data.submitter = "bob"
    /\ sessions["s1"].data.submission_slot = 2
    /\ clock.slot = 2
    /\ sessions["s1"].data.completed_target_indices = <<0, 0, 9>>
    /\ last = [op |-> "SubmitSession", result |-> "Ok"]

\* C17: a SubmitSession whose pool_id names no existing pool, or whose
\* presented pool account stores a different pool_id, fails with PoolNotFound
\* and stores no session; every stored session's pool_id is the id of an
\* existing pool.
C17_SubmitNeedsExistingPool ==
    [][/\ last'.op = "SubmitSession"
            => \A r \in SubmitAnyRequests :
                (/\ WellAddressedSubmit(r)
                 /\ r.session_id # ""
                 /\ r.pool_id # ""
                 /\ sessions[r.session_id].data_len = 0
                 /\ \/ pools[r.pool_id].data_len = 0
                    \/ PoolAccountAt(r.pool_account).data_len = 0
                    \/ PoolAccountAt(r.pool_account).data.pool_id # r.pool_id)
                    => \/ /\ last'.result = "PoolNotFound"
                          /\ sessions' = sessions
                       \/ ~DoSubmitSession(r)
       /\ \A s \in SessionIds :
            sessions'[s].data_len > 0
                => pools'[sessions'[s].data.pool_id].data_len > 0
      ]_vars

\* C18: in every state the assigned_target_index of a finalized session is
\* below the target_count of the stored pool whose id is the session's
\* pool_id.
C18_AssignedIndexValidInOwnPool ==
    \A s \in SessionIds :
        (sessions[s].data_len > 0 /\ sessions[s].data.finalized)
            => /\ pools[sessions[s].data.pool_id].data_len > 0
               /\ sessions[s].data.assigned_target_index
                    < pools[sessions[s].data.pool_id].data.target_count

\* the slot is inside the finalization window of the session r names
InWindow(r) ==
    /\ clock.slot >= sessions[r.session_account[2]].data.submission_slot + 2
    /\ clock.slot <= sessions[r.session_account[2]].data.submission_slot + 150

\* the pool account r presents holds a record with an index outside r's
\* completed list
HasAvailable(r) ==
    /\ PoolAccountAt(r.pool_account).data_len > 0
    /\ \E i \in 0 .. PoolAccountAt(r.pool_account).data.target_count - 1 :
        i \notin Elements(r.completed_target_indices)

\* C19: a signed FinalizeSession on a stored unfinalized session, inside the
\* window, with an entropy text of exactly 32 bytes and a non-empty available
\* set, succeeds and stores the completed list of the call, whatever the
\* length of that list.
C19_FinalizeCommitsAnyList ==
    [][last'.op = "FinalizeSession"
        => \A r \in OtherFinalizeRequests :
            (/\ OnUnfinalizedSession(r)
             /\ InWindow(r)
             /\ r.submission_blockhash \in {TextSeven, TextOnes}
             /\ HasAvailable(r))
                => \/ /\ last'.result = "Ok"
                      /\ sessions'[r.session_account[2]].data.finalized
                      /\ sessions'[r.session_account[2]].data
                            .completed_target_indices
                            = r.completed_target_indices
                   \/ ~DoFinalizeSession(r)
      ]_vars

\* C20: a signed FinalizeSession on a stored unfinalized session, inside the
\* window and with a 32-byte entropy, is decided by the target_count the
\* presented pool has at that step: when the completed list covers every
\* index below it (in particular when it is zero) the call fails with
\* AllTargetsCompleted and the sessions are unchanged; when an index is left
\* (as after an append to the pool) the call with the same list succeeds and
\* assigns an index below the current target_count that is not in the list.
C20_AvailableAtFinalizeTime ==
    [][last'.op = "FinalizeSession"
        => \A r \in FinalizeRequests :
            (/\ OnUnfinalizedSession(r)
             /\ InWindow(r)
             /\ r.submission_blockhash \in {TextSeven, TextZero}
             /\ PoolAccountAt(r.pool_account).data_len > 0)
                => \/ IF ~HasAvailable(r)
                      THEN /\ last'.result = "AllTargetsCompleted"
                           /\ sessions' = sessions
                      ELSE LET idx == sessions'[r.session_account[2]].data
                                        .assigned_target_index
                           IN /\ last'.result = "Ok"
                              /\ idx < PoolAccountAt(r.pool_account).data
                                        .target_count
                              /\ idx \notin
                                    Elements(r.completed_target_indices)
                   \/ ~DoFinalizeSession(r)
      ]_vars

\* C22: in every state a stored session's entropy is all-zero exactly when
\* the session is not finalized.
C22_ZeroEntropyIffUnfinalized ==
    \A s \in SessionIds :
        sessions[s].data_len > 0
            => (sessions[s].data.submission_blockhash = [i \in 1 .. 32 |-> 0]
                    <=> ~sessions[s].data.finalized)

(***************************************************************************)
(* SpecAlias: FinalizeSession handed the address of a pool account as its   *)
(* session account.  Keys and hashes are their 32 bytes here.  The pool is  *)
(* created by a key whose first four bytes are zero with four hashes chosen  *)
(* so that the pool's buffer is also the encoding of an unfinalized Session  *)
(* submitted at slot 0: session_id is the pool id, pool_id is the empty     *)
(* text made of the key's zero bytes, and the list is the six u16 that      *)
(* cover the end of the last hash, created_at and the pool's flag.          *)
(***************************************************************************)
ZeroPrefixKey == [i \in 1 .. 32 |-> IF i <= 4 THEN 0 ELSE 9]
OrdinaryKey == [i \in 1 .. 32 |-> 161]
CallerKey == [i \in 1 .. 32 |-> 177]

\* bytes 1..6 are the upper bytes of the Session's submission_slot
CraftedFirst == [i \in 1 .. HASH_BYTES |-> IF i <= 6 THEN 0 ELSE 17]
PlainHash(b) == [i \in 1 .. HASH_BYTES |-> b]
\* bytes 9..16 submitted_at, 17 finalized, 18..25 finalized_at, 26..29 the
\* length 6 of completed_target_indices, 30..32 the start of its elements
CraftedLast ==
    [i \in 1 .. HASH_BYTES |-> IF i <= 8 THEN 68 ELSE IF i = 26 THEN 6 ELSE 0]

CraftedTargets == <<CraftedFirst, PlainHash(34), PlainHash(51), CraftedLast>>

AliasCreateRequests ==
    {CreateRequest(Signed(k), "p1", CraftedTargets) :
        k \in {ZeroPrefixKey, OrdinaryKey}}

AliasAppendRequests ==
    {CreateRequest(Signed(k), "p1", <<PlainHash(85)>>) :
        k \in {ZeroPrefixKey, OrdinaryKey}}

AliasFinalizePoolRequests ==
    {FinalizePoolRequest(Signed(k), "p1") : k \in {ZeroPrefixKey, OrdinaryKey}}

AliasSubmitRequests ==
    {[SubmitRequest(Signed(CallerKey), "s1", "p1", PoolKey("p1"), << >>)
        EXCEPT !.session_media_hash = PlainHash(119),
               !.target_selector_program = PlainHash(136)]}

\* lists written over the end of the pool's buffer: the last element of a list
\* of six lands on the top byte of created_at and the pool's flag byte
AliasLists ==
    {<< >>, <<0>>, <<0, 0, 0, 0, 0, 0>>, <<9, 9, 3, 0, 0, 256>>,
     <<0, 1, 2, 3, 0, 0>>, <<0, 0, 0, 0, 0, 0, 0>>}

AliasFinalizeRequests ==
    {[FinalizeRequest(Signed(CallerKey), "p1", PoolKey("p1"), TextSeven, c)
        EXCEPT !.session_account = PoolKey("p1")] : c \in AliasLists}
    \cup {[FinalizeRequest(a, "p1", PoolKey("p1"), t, << >>)
                EXCEPT !.session_account = PoolKey("p1")] :
            a \in {Signed(ZeroPrefixKey), Unsigned(CallerKey)},
            t \in {TextSeven, TextShort}}
    \cup {FinalizeRequest(Signed(CallerKey), "s1", PoolKey("p1"), TextSeven, << >>)}

CreateCraftedPool == \E r \in AliasCreateRequests : DoCreateTargetPool(r)

AppendToCraftedPool ==
    \E r \in AliasAppendRequests :
        WithinPoolBound(r) /\ DoAppendTargetsToPool(r)

FinalizeCraftedPool == \E r \in AliasFinalizePoolRequests : DoFinalizePool(r)

SubmitBesideCraftedPool == \E r \in AliasSubmitRequests : DoSubmitSession(r)

FinalizeAnyAccount == \E r \in AliasFinalizeRequests : DoFinalizeSession(r)

NextAlias ==
    \/ CreateCraftedPool
    \/ AppendToCraftedPool
    \/ FinalizeCraftedPool
    \/ SubmitBesideCraftedPool
    \/ FinalizeAnyAccount
    \/ Tick

SpecAlias == Init /\ [][NextAlias]_vars

\* the records stored before a step
StoredPools == {p \in PoolIds : pools[p].data_len > 0}
StoredSessions == {s \in SessionIds : sessions[s].data_len > 0}

\* C21: SubmitSession and FinalizeSession leave every pool record as it was;
\* the pool instructions leave every session record as it was;
\* AppendTargetsToPool and FinalizePool keep pool_id, creator and created_at of
\* the pool; FinalizeSession keeps session_id, pool_id, session_media_hash,
\* submission_slot, target_selector_program, submitter and submitted_at of the
\* session; a step changes at most one stored record and removes none.
C21_Frame ==
    [][/\ last'.op \in {"SubmitSession", "FinalizeSession"}
            => \A p \in PoolIds :
                IF p \in StoredPools THEN pools'[p] = pools[p]
                ELSE pools'[p].data_len = 0
       /\ last'.op \in {"CreateTargetPool", "AppendTargetsToPool", "FinalizePool"}
            => \A s \in SessionIds :
                IF s \in StoredSessions THEN sessions'[s] = sessions[s]
                ELSE sessions'[s].data_len = 0
       /\ last'.op \in {"AppendTargetsToPool", "FinalizePool"}
            => \A p \in StoredPools :
                /\ pools'[p].data.pool_id = pools[p].data.pool_id
                /\ pools'[p].data.creator = pools[p].data.creator
                /\ pools'[p].data.created_at = pools[p].data.created_at
       /\ last'.op = "FinalizeSession"
            => \A s \in StoredSessions :
                LET old == sessions[s].data
                    new == sessions'[s].data
                IN /\ new.session_id = old.session_id
                   /\ new.pool_id = old.pool_id
                   /\ new.session_media_hash = old.session_media_hash
                   /\ new.submission_slot = old.submission_slot
                   /\ new.target_selector_program = old.target_selector_program
                   /\ new.submitter = old.submitter
                   /\ new.submitted_at = old.submitted_at
       /\ Cardinality({p \in StoredPools : pools'[p] # pools[p]})
            + Cardinality({s \in StoredSessions : sessions'[s] # sessions[s]})
                <= 1
       /\ \A p \in StoredPools : pools'[p].data_len > 0
       /\ \A s \in StoredSessions : sessions'[s].data_len > 0
      ]_vars

\* C11 (its last clause): every step that changes the targets or the
\* finalized flag of a stored pool is the step of an AppendTargetsToPool or
\* FinalizePool request signed by the pool's creator.
C11_PoolChangedByCreatorOnly ==
    [][\A p \in StoredPools :
        (\/ pools'[p].data.targets # pools[p].data.targets
         \/ pools'[p].data.finalized # pools[p].data.finalized)
            => \E r \in AliasAppendRequests \cup AliasFinalizePoolRequests :
                /\ r.pool_id = p
                /\ r.authority = Signed(pools[p].data.creator)
                /\ \/ /\ r \in AliasAppendRequests
                      /\ DoAppendTargetsToPool(r)
                   \/ /\ r \in AliasFinalizePoolRequests
                      /\ DoFinalizePool(r)
      ]_vars

\* C12 (its first clause): across every step the targets of a stored pool
\* before the step are a prefix of its targets after the step.
C12_EarlierTargetsArePrefix ==
    [][\A p \in StoredPools :
        LET old == pools[p].data.targets
            new == pools'[p].data.targets
        IN /\ Len(new) >= Len(old)
           /\ \A i \in 1 .. Len(old) : new[i] = old[i]
      ]_vars

====
